---- MODULE Spec2Model ----
(***************************************************************************)
(* The sandbox of js432/ai: the controller of src/src/core/                *)
(* sandbox_runtime.js (initSandbox) and the web worker it spawns           *)
(* (sandbox_worker.js, src/unnamed/part_003 lines 334-626), joined by two  *)
(* FIFO message channels.                                                  *)
(*                                                                         *)
(* Both sides are single-threaded event loops.  One action of the model is *)
(* one task of one loop: a message listener runs to its first real         *)
(* suspension (a fetch) or to its end, because the microtasks of an        *)
(* `await` on an already settled value are drained before the next         *)
(* message event is dispatched.                                            *)
(***************************************************************************)
EXTENDS Integers, Sequences, FiniteSets, TLC

\* Bound on the number of executeCode/loadModule calls made on the interface.
MaxCalls == 2

\* Bound on the number of result messages that reach the controller's listener
\* without a handler of the worker having posted them (SpecStray only).
MaxStray == 1
MaxRaw == 3

(***************************************************************************)
(* JavaScript values.  A primitive is [k |-> typeof-like kind, s |-> its   *)
(* text]; the object executeCode returns is [k |-> "result", output, type].*)
(***************************************************************************)
JSTrue == [k |-> "boolean", s |-> "true"]
JSFalse == [k |-> "boolean", s |-> "false"]
JSUndefined == [k |-> "undefined", s |-> "undefined"]
JSNull == [k |-> "null", s |-> "null"]
NumVal(s) == [k |-> "number", s |-> s]
StrVal(s) == [k |-> "string", s |-> s]
ErrorVal(msg) == [k |-> "Error", s |-> msg]
ExecResult(output, type) == [k |-> "result", output |-> output, type |-> type]

\* typeof v
TypeOf(v) == IF v.k \in {"null", "Error", "result"} THEN "object" ELSE v.k

\* String(v): an Error prints as "Error: msg", or "Error" when msg is empty.
String(v) ==
  IF v.k = "Error" THEN (IF v.s = "" THEN "Error" ELSE "Error: " \o v.s)
  ELSE v.s

\* Whether `v.message` can be read at all: a property access on null or
\* undefined throws a TypeError.
ReadsMessage(v) == v.k \notin {"null", "undefined"}

\* v.message, where it can be read: the message of an Error, else undefined.
MessageOf(v) == IF v.k = "Error" THEN StrVal(v.s) ELSE JSUndefined

\* JavaScript truthiness of a primitive.
Truthy(v) ==
  /\ v.k \notin {"undefined", "null"}
  /\ ~(v.k = "string" /\ v.s = "")
  /\ ~(v.k = "boolean" /\ v.s = "false")
  /\ ~(v.k = "number" /\ v.s = "0")

NullMessageTypeError ==
  ErrorVal("Cannot read properties of null (reading 'message')")

(***************************************************************************)
(* Strings, as the agent of src/src/agents/runtime_agent.js handles them.  *)
(***************************************************************************)
UpperLetters == "ABCDEFGHIJKLMNOPQRSTUVWXYZ"
LowerLetters == "abcdefghijklmnopqrstuvwxyz"

\* The character at position i of s, as a string of length one.
CharAt(s, i) == SubSeq(s, i, i)

\* One character of String.prototype.toLowerCase.
LowerChar(ch) ==
  IF \E i \in 1 .. Len(UpperLetters) : CharAt(UpperLetters, i) = ch
  THEN CharAt(LowerLetters, CHOOSE i \in 1 .. Len(UpperLetters) : CharAt(UpperLetters, i) = ch)
  ELSE ch

\* String.prototype.toLowerCase
RECURSIVE ToLowerCase(_)
ToLowerCase(s) ==
  IF s = "" THEN "" ELSE LowerChar(CharAt(s, 1)) \o ToLowerCase(SubSeq(s, 2, Len(s)))

\* The least position >= from at which sub occurs in s, or 0.
IndexOf(s, sub, from) ==
  LET hits == {i \in from .. (Len(s) - Len(sub) + 1) : SubSeq(s, i, i + Len(sub) - 1) = sub}
  IN IF hits = {} THEN 0 ELSE CHOOSE i \in hits : \A j \in hits : i <= j

(***************************************************************************)
(* Guest code.  A body is a source text; running it either returns a value *)
(* or throws one.  The texts below are the inputs of the model.            *)
(***************************************************************************)
Returns(v) == [kind |-> "return", val |-> v, thrown |-> JSUndefined]
Throws(v) == [kind |-> "throw", val |-> JSUndefined, thrown |-> v]

\* A snippet that defines two functions; the second, called with 2,
\* returns 4.
TwoCallables == "function a(x) { return x + 1 }\nfunction b(x) { return x * 2 }"

RunPlain(code) ==
  CASE code = "return 1" -> Returns(NumVal("1"))
    [] code = TwoCallables -> Returns(JSUndefined)
    [] code = "return 'a'" -> Returns(StrVal("a"))
    [] code = "exports.x = 1" -> Returns(JSUndefined)
    [] code = "throw new Error('boom')" -> Throws(ErrorVal("boom"))
    [] code = "throw ''" -> Throws(StrVal(""))
    [] code = "throw null" -> Throws(JSNull)
    [] OTHER -> Throws(ErrorVal("Unexpected token"))

\* The text executeWithInputs puts around a JavaScript snippet,
\* runtime_agent.js lines 157-175 (the comments and the eval fallback of
\* the template are left out of the text): an anonymous function that
\* holds the snippet, looks for the functions among the properties of
\* `this`, calls the last of them with the inputs, and is called at once.
JsWrapHead == "(function() {\n"
JsWrapCall ==
  "\nconst functions = Object.entries(this).filter(([_, value]) => typeof value === 'function').map(([name, _]) => name);\nconst lastFunction = functions[functions.length - 1];\nif (lastFunction && typeof this[lastFunction] === 'function') { return this[lastFunction](..."
JsWrapTail == "); }\n})();"
WrapJs(code, inputs) == JsWrapHead \o code \o JsWrapCall \o inputs \o JsWrapTail

IsJsWrapped(code) ==
  /\ Len(code) > Len(JsWrapHead) /\ SubSeq(code, 1, Len(JsWrapHead)) = JsWrapHead
  /\ IndexOf(code, JsWrapCall, 1) > 0
WrappedSnippet(code) == SubSeq(code, Len(JsWrapHead) + 1, IndexOf(code, JsWrapCall, 1) - 1)

\* Whether the snippet leaves the function that holds it by a return
\* statement of its own.
ReturnsAtTopLevel(code) == Len(code) >= 6 /\ SubSeq(code, 1, 6) = "return"

\* Running a function body in the worker, which compiles it with
\* "use strict" (part_003 lines 505-508).  A wrapped snippet runs inside the
\* anonymous function: its throw leaves the wrapper; its own return ends
\* the anonymous function, whose value the body discards; otherwise
\* Object.entries(this) is reached with `this` undefined (a plain call in
\* strict code) and throws a TypeError.
RunBody(code) ==
  IF IsJsWrapped(code)
  THEN LET o == RunPlain(WrappedSnippet(code))
       IN IF o.kind = "throw" THEN o
          ELSE IF ReturnsAtTopLevel(WrappedSnippet(code)) THEN Returns(JSUndefined)
          ELSE Throws(ErrorVal("Cannot convert undefined or null to object"))
  ELSE RunPlain(code)

\* func(modules), line 510: the snippet is called with the worker's own
\* registry (the Map itself, not a copy), which it can read and write.
\* The result is what the snippet did and the registry it leaves.
RunWithModules(code, mods) ==
  CASE code = "modules.set('m', 1)" ->
         [o |-> Returns(JSUndefined), modules |-> [k \in DOMAIN mods \cup {"m"} |->
                                                     IF k = "m" THEN NumVal("1") ELSE mods[k]]]
    [] code = "return modules.has('m')" ->
         [o |-> Returns(IF "m" \in DOMAIN mods THEN JSTrue ELSE JSFalse), modules |-> mods]
    [] OTHER -> [o |-> RunBody(code), modules |-> mods]

\* url.startsWith('http')
StartsWithHttp(url) == Len(url) >= 4 /\ SubSeq(url, 1, 4) = "http"

\* The text a successful fetch of url yields.
FetchedText(url) == "exports.x = 1"

ExecRequests ==
  { [code |-> "return 1", language |-> "js"],
    [code |-> "throw new Error('boom')", language |-> "js"],
    [code |-> "throw null", language |-> "js"],
    [code |-> "modules.set('m', 1)", language |-> "js"],
    [code |-> "return modules.has('m')", language |-> "js"],
    [code |-> "return 'a'", language |-> "python"],
    [code |-> "return 'a'", language |-> "py"],
    [code |-> "return 1", language |-> "PYTHON"] }

LoadRequests ==
  { [name |-> "m", url |-> "exports.x = 1", type |-> "js"],
    [name |-> "m", url |-> "http://cdn/m.js", type |-> "js"],
    [name |-> "m", url |-> "throw new Error('boom')", type |-> "js"],
    [name |-> "m", url |-> "throw ''", type |-> "js"],
    [name |-> "m", url |-> "throw null", type |-> "js"],
    [name |-> "n", url |-> "http://cdn/m.js", type |-> "js"],
    [name |-> "n", url |-> "exports.x = 1", type |-> "python"],
    [name |-> "n", url |-> "exports.x = 1", type |-> "wasm"] }

Names == {r.name : r \in LoadRequests}

VARIABLES
  \* controller (initSandbox)
  ctlPc,            \* "start", "awaitInit", "ready", "failed"
  messageId,        \* let messageId
  messageHandlers,  \* Map id -> {resolve, reject}: here id -> index of the promise
  terminated,       \* worker.terminate() has been called
  hostOut,          \* console lines forwarded to the host, in order
  \* the promises sendMessage returned, by call index; calls[c] is the request
  calls,
  promise,
  arrivals,         \* ids of the worker's result messages the listener has received
  delivered,        \* the message the listener handled last
  \* channels
  toWorker,         \* worker.postMessage, FIFO
  toCtl,            \* self.postMessage, FIFO
  \* worker
  modules,          \* Map name -> module
  initialized,
  pyodide,
  pythonAvailable,
  fetching,         \* load_module handlers suspended in `await fetch(url)`
  \* history of the worker
  execCount,        \* name -> number of times a module body was run for it
  resultsPosted,    \* id -> number of 'result' messages posted with it
  completed,        \* ids whose handler has run to its end
  snippetsRun,      \* number of snippets executeCode has run
  consoleTrace,     \* what the console calls of the worker's latest step did, in order
  \* environment
  strays,           \* number of stray result messages so far (SpecStray only)
  raws,             \* the messages posted to the worker directly (SpecRaw only)
  agent             \* RuntimeAgent: its call in progress and what it returned (SpecExtract, SpecAgent)

ctlVars == <<ctlPc, messageId, messageHandlers, terminated, hostOut, calls, promise, arrivals, delivered>>
workerVars == <<modules, initialized, pyodide, pythonAvailable, fetching, execCount, resultsPosted, completed, snippetsRun,
               consoleTrace>>
vars == <<ctlVars, workerVars, toWorker, toCtl, strays, raws, agent>>

Ids == 0 .. (MaxCalls + 1)
RawIds == 0 .. (MaxRaw - 1)

\* A JavaScript Map, as a function on the set of its keys.
EmptyMap == [x \in {} |-> 0]
MapSet(f, key, v) == [x \in (DOMAIN f) \cup {key} |-> IF x = key THEN v ELSE f[x]]
MapDelete(f, key) == [x \in (DOMAIN f) \ {key} |-> f[x]]

NoId == 0 - 1
NoMessage == [id |-> NoId, type |-> "none", data |-> [key |-> "none"]]

\* No call of the agent's extraction has been made.
AgentIdle == [pc |-> "idle"]

Init ==
  /\ ctlPc = "start"
  /\ messageId = 0
  /\ messageHandlers = EmptyMap
  /\ terminated = FALSE
  /\ hostOut = <<>>
  /\ calls = <<>>
  /\ promise = <<>>
  /\ arrivals = <<>>
  /\ delivered = NoMessage
  /\ toWorker = <<>>
  /\ toCtl = <<>>
  /\ modules = EmptyMap
  /\ initialized = FALSE
  /\ pyodide = "null"
  /\ pythonAvailable = FALSE
  /\ fetching = {}
  /\ execCount = [n \in Names |-> 0]
  /\ resultsPosted = [i \in Ids \cup RawIds |-> 0]
  /\ completed = {}
  /\ snippetsRun = 0
  /\ consoleTrace = <<>>
  /\ strays = 0
  /\ raws = <<>>
  /\ agent = AgentIdle

(***************************************************************************)
(* Messages.  A console message carries no id (undefined, here -1).  The   *)
(* data of a result message is {result} or {error}: `key` says which       *)
(* property is present, the absent one reads as undefined.                 *)
(***************************************************************************)
Request(id, type, data) == [id |-> id, type |-> type, data |-> data]
ResultOk(id, v) ==
  [id |-> id, type |-> "result", data |-> [key |-> "result", result |-> v, error |-> JSUndefined]]
ResultError(id, text) ==
  [id |-> id, type |-> "result", data |-> [key |-> "error", result |-> JSUndefined, error |-> StrVal(text)]]
ConsoleMsg(method, text) ==
  [id |-> NoId, type |-> "console", data |-> [method |-> method, args |-> text]]

(***************************************************************************)
(* Controller: src/src/core/sandbox_runtime.js                             *)
(***************************************************************************)
NewPromise == [state |-> "pending", val |-> JSUndefined, by |-> <<>>]

\* resolve(v) / reject(e) of a promise: only the first call has an effect;
\* `by` keeps every message on which one of them was called.
Resolve(p, v, msg) ==
  IF p.state = "pending" THEN [state |-> "resolved", val |-> v, by |-> Append(p.by, msg)]
  ELSE [p EXCEPT !.by = Append(@, msg)]
Reject(p, e, msg) ==
  IF p.state = "pending" THEN [state |-> "rejected", val |-> e, by |-> Append(p.by, msg)]
  ELSE [p EXCEPT !.by = Append(@, msg)]

\* Mutant of AllocId: the counter is read and not incremented.
AllocIdNoIncrement(mid) == [id |-> mid, next |-> mid]

\* const id = messageId++ : the id of the call and the counter after it.
AllocId(mid) == [id |-> mid, next |-> mid + 1]

\* sendMessage(type, data), lines 49-55.
sendMessage(type, data) ==
  LET a == AllocId(messageId) IN
  /\ messageId' = a.next
  /\ calls' = Append(calls, Request(a.id, type, data))
  /\ promise' = Append(promise, NewPromise)
  /\ messageHandlers' = MapSet(messageHandlers, a.id, Len(promise) + 1)
  /\ toWorker' = Append(toWorker, Request(a.id, type, data))

\* await sendMessage('init', {type: 'python'}), line 58.
SendInit ==
  /\ ctlPc = "start"
  /\ sendMessage("init", [type |-> "python"])
  /\ ctlPc' = "awaitInit"
  /\ UNCHANGED <<terminated, hostOut, arrivals, delivered, workerVars, toCtl, strays, raws, agent>>

\* Mutant of InitAcked: the interface is returned without awaiting the
\* result of init.
InitAckedNoAwait ==
  /\ ctlPc = "awaitInit"
  /\ ctlPc' = "ready"
  /\ UNCHANGED <<messageId, messageHandlers, terminated, hostOut, calls, promise, arrivals,
                 delivered, workerVars, toWorker, toCtl, strays, raws, agent>>

\* The continuation of that await: the interface is returned (line 62), or
\* initSandbox throws.
InitAcked ==
  /\ ctlPc = "awaitInit"
  /\ promise[1].state # "pending"
  /\ ctlPc' = IF promise[1].state = "resolved" THEN "ready" ELSE "failed"
  /\ UNCHANGED <<messageId, messageHandlers, terminated, hostOut, calls, promise, arrivals,
                 delivered, workerVars, toWorker, toCtl, strays, raws, agent>>

\* sandbox.executeCode(code, language), lines 69-77.  The wrapper's promise
\* settles as the promise of sendMessage does (it rethrows).
sandbox_executeCode(code, language) ==
  /\ ctlPc = "ready"
  /\ Len(calls) < MaxCalls + 1
  /\ sendMessage("execute", [code |-> code, language |-> language])
  /\ UNCHANGED <<ctlPc, terminated, hostOut, arrivals, delivered, workerVars, toCtl, strays, raws>>

\* A call of sandbox.executeCode by the page itself.
iface_executeCode(code, language) ==
  /\ sandbox_executeCode(code, language)
  /\ UNCHANGED agent

\* sandbox.loadModule(name, url, type), lines 86-94.
iface_loadModule(name, url, type) ==
  /\ ctlPc = "ready"
  /\ Len(calls) < MaxCalls + 1
  /\ sendMessage("load_module", [name |-> name, url |-> url, type |-> type])
  /\ UNCHANGED <<ctlPc, terminated, hostOut, arrivals, delivered, workerVars, toCtl, strays, raws, agent>>

\* sandbox.terminate(), lines 99-101: worker.terminate() and nothing else.
\* The worker stops at once.  Whether message events the worker had already
\* posted are still dispatched to the listener is up to the platform: both
\* outcomes are allowed.
terminate ==
  /\ ctlPc = "ready"
  /\ ~terminated
  /\ terminated' = TRUE
  /\ toCtl' \in {toCtl, <<>>}
  /\ UNCHANGED <<ctlPc, messageId, messageHandlers, hostOut, calls, promise, arrivals,
                 delivered, workerVars, toWorker, strays, raws, agent>>

\* Mutant of HandlerFor: results are matched to the oldest pending call, by
\* arrival order instead of by id.
HandlerForOldest(handlers, id) ==
  handlers[CHOOSE i \in DOMAIN handlers : \A j \in DOMAIN handlers : i <= j]

\* Mutant of AfterGet: the entry is not deleted.
AfterGetKeep(handlers, id) == handlers

\* messageHandlers.get(id): the promise the listener settles for a result.
HandlerFor(handlers, id) == handlers[id]

\* messageHandlers.delete(id), line 22.
AfterGet(handlers, id) == MapDelete(handlers, id)

\* lines 24-28: reject(new Error(data.error)) or resolve(data.result).
Settle(p, msg) ==
  IF Truthy(msg.data.error) THEN Reject(p, ErrorVal(msg.data.error.s), msg)
  ELSE Resolve(p, msg.data.result, msg)

\* Mutant of listener: a console message empties the map of pending
\* handlers.
listenerConsoleClears(msg) ==
  /\ delivered' = msg
  /\ IF msg.type = "result" /\ msg.id \in DOMAIN messageHandlers
     THEN LET c == HandlerFor(messageHandlers, msg.id) IN
          /\ messageHandlers' = AfterGet(messageHandlers, msg.id)
          /\ promise' = [promise EXCEPT ![c] = Settle(@, msg)]
          /\ hostOut' = hostOut
     ELSE IF msg.type = "console"
     THEN /\ hostOut' = Append(hostOut, msg.data)
          /\ messageHandlers' = EmptyMap
          /\ UNCHANGED promise
     ELSE UNCHANGED <<messageHandlers, promise, hostOut>>

\* The listener of worker.addEventListener('message', ...), lines 17-46,
\* called with the message msg.
listener(msg) ==
  /\ delivered' = msg
  /\ IF msg.type = "result" /\ msg.id \in DOMAIN messageHandlers
     THEN LET c == HandlerFor(messageHandlers, msg.id) IN
          /\ messageHandlers' = AfterGet(messageHandlers, msg.id)
          /\ promise' = [promise EXCEPT ![c] = Settle(@, msg)]
          /\ hostOut' = hostOut
     ELSE IF msg.type = "console"
     THEN /\ hostOut' = Append(hostOut, msg.data)
          /\ UNCHANGED <<messageHandlers, promise>>
     ELSE UNCHANGED <<messageHandlers, promise, hostOut>>

\* The message event of the oldest message the worker has posted.
onWorkerMessage ==
  /\ toCtl # <<>>
  /\ listener(Head(toCtl))
  /\ toCtl' = Tail(toCtl)
  /\ arrivals' = IF Head(toCtl).type = "result" THEN Append(arrivals, Head(toCtl).id) ELSE arrivals
  /\ UNCHANGED <<ctlPc, messageId, terminated, calls, workerVars, toWorker, strays, raws, agent>>

(***************************************************************************)
(* Worker: sandbox_worker.js, src/unnamed/part_003 lines 334-626           *)
(*                                                                         *)
(* An operation of the worker yields a record: how it ended (kind: return, *)
(* throw, or suspend at a fetch), the value returned or thrown, the        *)
(* console messages it posted, and the worker's state after it.            *)
(***************************************************************************)
W0 ==
  [kind |-> "return", val |-> JSUndefined, thrown |-> JSUndefined, logs |-> <<>>,
   modules |-> modules, execCount |-> execCount, initialized |-> initialized,
   pythonAvailable |-> pythonAvailable, pyodide |-> pyodide, snippetsRun |-> snippetsRun]

\* console[method](...args) in the worker, lines 344-365: the call is
\* relayed to the controller as a 'console' message.
consoleCall(method, text) == <<ConsoleMsg(method, text)>>

\* Mutant of consoleOverride: the message is posted before the original
\* method is called.
consoleOverrideRelayFirst(n, m) ==
  << [kind |-> "relay", n |-> n, line |-> m.data], [kind |-> "echo", n |-> n, line |-> m.data] >>

\* The body of an overridden console method, lines 346-363, for the n-th
\* console call of a step: originalConsole[method](...args), the local
\* echo, then self.postMessage of the 'console' message m.
consoleOverride(n, m) ==
  << [kind |-> "echo", n |-> n, line |-> m.data], [kind |-> "relay", n |-> n, line |-> m.data] >>

\* The console calls behind the messages a step has posted.
ConsoleOnly(msgs) == SelectSeq(msgs, LAMBDA m : m.type = "console")
RECURSIVE TraceOf(_, _)
TraceOf(msgs, n) ==
  IF msgs = <<>> THEN <<>>
  ELSE consoleOverride(n, Head(msgs)) \o TraceOf(Tail(msgs), n + 1)

PythonNotice ==
  "Python environment not available. Pyodide failed to initialize. Check console for details."

\* Mutant of initialize: bringing up the Python guest fails the init.
initializePropagates(type) ==
  IF initialized THEN [W0 EXCEPT !.val = JSTrue]
  ELSE IF type = "python"
  THEN [W0 EXCEPT !.kind = "throw", !.thrown = ErrorVal("Pyodide initialization timeout"),
                  !.pythonAvailable = FALSE, !.pyodide = "null"]
  ELSE [W0 EXCEPT !.val = JSTrue, !.initialized = TRUE]

\* Mutant of initialize: a repeated init for Python brings the guest up.
initializeRetries(type) ==
  IF initialized
  THEN IF type = "python"
       THEN [W0 EXCEPT !.val = JSTrue, !.pythonAvailable = TRUE, !.pyodide = "loaded"]
       ELSE [W0 EXCEPT !.val = JSTrue]
  ELSE IF type = "python"
  THEN [W0 EXCEPT !.val = JSTrue,
                  !.logs = consoleCall("warn", "Python support temporarily disabled to avoid initialization issues"),
                  !.pythonAvailable = FALSE, !.pyodide = "null", !.initialized = TRUE]
  ELSE [W0 EXCEPT !.val = JSTrue, !.initialized = TRUE]

\* initialize(type), lines 414-466.
initialize(type) ==
  IF initialized THEN [W0 EXCEPT !.val = JSTrue]
  ELSE IF type = "python"
  THEN [W0 EXCEPT !.val = JSTrue,
                  !.logs = consoleCall("warn", "Python support temporarily disabled to avoid initialization issues"),
                  !.pythonAvailable = FALSE, !.pyodide = "null", !.initialized = TRUE]
  ELSE [W0 EXCEPT !.val = JSTrue, !.initialized = TRUE]

\* The state once a snippet has been run (pyodide.runPythonAsync(code),
\* func(modules)).
SnippetRan == [W0 EXCEPT !.snippetsRun = @ + 1]

\* The catch clauses of executeCode, lines 494-499 and 515-520: the error is
\* logged, then `${error.message}` is read, which throws when the value
\* thrown was null or undefined.
ExecCatch(label, e) ==
  IF ReadsMessage(e)
  THEN [SnippetRan EXCEPT !.val = ExecResult(StrVal(label \o ": " \o MessageOf(e).s), "error"),
                          !.logs = consoleCall("error", label \o ":")]
  ELSE [SnippetRan EXCEPT !.kind = "throw", !.thrown = NullMessageTypeError,
                          !.logs = consoleCall("error", label \o ":")]

\* Mutant of NotInitialized: the guard of executeCode never fires.
NotInitializedNever == FALSE

\* if (!initialized), line 475.
NotInitialized == ~initialized

\* Mutant of IsPythonLanguage: the short identifier is not recognized.
IsPythonLanguageLongOnly(language) == language = "python"

\* language === 'python' || language === 'py', line 479.
IsPythonLanguage(language) == language = "python" \/ language = "py"

\* executeCode(code, language), lines 474-523.
executeCode(code, language) ==
  IF NotInitialized
  THEN [W0 EXCEPT !.kind = "throw", !.thrown = ErrorVal("Sandbox not initialized")]
  ELSE IF IsPythonLanguage(language)
  THEN IF ~pythonAvailable \/ pyodide = "null"
       THEN [W0 EXCEPT !.val = ExecResult(StrVal(PythonNotice), "error")]
       ELSE LET o == RunBody(code) IN
            IF o.kind = "return"
            THEN [SnippetRan EXCEPT !.val = ExecResult(StrVal(String(o.val)), TypeOf(o.val))]
            ELSE ExecCatch("Python execution error", o.thrown)
  ELSE LET run == RunWithModules(code, modules)
           o == run.o
       IN IF o.kind = "return"
          THEN [SnippetRan EXCEPT !.val = ExecResult(o.val, TypeOf(o.val)), !.modules = run.modules]
          ELSE [ExecCatch("JavaScript execution error", o.thrown) EXCEPT !.modules = run.modules]

\* The catch clause of loadModule, lines 622-625: log and rethrow.
LoadCatch(name, e, w) ==
  [w EXCEPT !.kind = "throw", !.thrown = e,
            !.logs = consoleCall("error", "Error loading module " \o name \o ":")]

\* Mutant of RunAndStore: the module is stored before its body is run.
RunAndStoreFirst(name, code) ==
  LET o == RunBody(code)
      ran == [W0 EXCEPT !.execCount = [execCount EXCEPT ![name] = @ + 1],
                        !.modules = MapSet(modules, name, [exports |-> code])]
  IN IF o.kind = "return"
     THEN [ran EXCEPT !.val = JSTrue,
                      !.logs = consoleCall("log", "Module " \o name \o " loaded successfully")]
     ELSE LoadCatch(name, o.thrown, ran)

\* Lines 547-551 / 554-556 and 617-621: run the module body, store the
\* module, return true; a throw of the body goes to the catch clause.
RunAndStore(name, code) ==
  LET o == RunBody(code)
      ran == [W0 EXCEPT !.execCount = [execCount EXCEPT ![name] = @ + 1]]
  IN IF o.kind = "return"
     THEN [ran EXCEPT !.val = JSTrue,
                      !.modules = MapSet(modules, name, [exports |-> code]),
                      !.logs = consoleCall("log", "Module " \o name \o " loaded successfully")]
     ELSE LoadCatch(name, o.thrown, ran)

\* Mutant of AlreadyLoaded: the registry is not consulted.
AlreadyLoadedNever(name) == FALSE

\* modules.has(name), line 533.
AlreadyLoaded(name) == name \in DOMAIN modules

\* Mutant of loadModule: the registry is consulted only for type 'js'.
loadModuleTypeFirst(name, url, type) ==
  IF type = "js"
  THEN IF AlreadyLoaded(name)
       THEN [W0 EXCEPT !.val = JSTrue,
                       !.logs = consoleCall("log", "Module " \o name \o " already loaded")]
       ELSE IF StartsWithHttp(url) THEN [W0 EXCEPT !.kind = "suspend"]
       ELSE RunAndStore(name, url)
  ELSE IF type = "python" \/ type = "py"
  THEN [W0 EXCEPT !.val = JSFalse,
                  !.logs = consoleCall("warn", "Python environment not available for module loading")]
  ELSE LoadCatch(name, ErrorVal("Unsupported module type: " \o type), W0)

\* loadModule(name, url, type), lines 532-626, up to its first suspension.
loadModule(name, url, type) ==
  IF AlreadyLoaded(name)
  THEN [W0 EXCEPT !.val = JSTrue,
                  !.logs = consoleCall("log", "Module " \o name \o " already loaded")]
  ELSE IF type = "js"
  THEN IF StartsWithHttp(url) THEN [W0 EXCEPT !.kind = "suspend"]
       ELSE RunAndStore(name, url)
  ELSE IF type = "python" \/ type = "py"
  THEN IF pyodide = "null"
       THEN [W0 EXCEPT !.val = JSFalse,
                       !.logs = consoleCall("warn", "Python environment not available for module loading")]
       ELSE IF StartsWithHttp(url) THEN [W0 EXCEPT !.kind = "suspend"]
       ELSE RunAndStore(name, url)
  ELSE LoadCatch(name, ErrorVal("Unsupported module type: " \o type), W0)

\* loadModule after `await fetch(url)`, lines 545-551 (566-589): the fetch
\* failed (it rejects with a TypeError), or the text fetched is run.
loadModuleResume(name, url, fetched) ==
  IF fetched THEN RunAndStore(name, FetchedText(url))
  ELSE LoadCatch(name, ErrorVal("Failed to fetch"), W0)

\* Mutant of Dispatch: a message of another type is answered like a
\* successful operation.
DispatchNoDefault(msg) ==
  CASE msg.type = "init" -> initialize(msg.data.type)
    [] msg.type = "execute" -> executeCode(msg.data.code, msg.data.language)
    [] msg.type = "load_module" -> loadModule(msg.data.name, msg.data.url, msg.data.type)
    [] OTHER -> W0

\* switch (type), lines 374-389.
Dispatch(msg) ==
  CASE msg.type = "init" -> initialize(msg.data.type)
    [] msg.type = "execute" -> executeCode(msg.data.code, msg.data.language)
    [] msg.type = "load_module" -> loadModule(msg.data.name, msg.data.url, msg.data.type)
    [] OTHER -> [W0 EXCEPT !.kind = "throw", !.thrown = ErrorVal("Unknown message type: " \o msg.type)]

\* error.message || String(error), line 404.
MessageOrString(e) == IF Truthy(MessageOf(e)) THEN MessageOf(e).s ELSE String(e)

\* Mutant of Reply: the result is posted before the error is logged.
ReplyResultFirst(id, type, r) ==
  IF r.kind = "return" THEN <<ResultOk(id, r.val)>>
  ELSE (IF ReadsMessage(r.thrown) THEN <<ResultError(id, MessageOrString(r.thrown))>> ELSE <<>>)
       \o consoleCall("error", "Error handling message " \o type \o ":")

\* What the listener posts once the operation has ended, lines 391-406.  In
\* the catch clause `error.message` is read after the error is logged: when
\* the value thrown is null or undefined that read throws, and nothing more
\* is posted.
Reply(id, type, r) ==
  IF r.kind = "return" THEN <<ResultOk(id, r.val)>>
  ELSE consoleCall("error", "Error handling message " \o type \o ":")
       \o (IF ReadsMessage(r.thrown) THEN <<ResultError(id, MessageOrString(r.thrown))>> ELSE <<>>)

ResultCount(msgs) == Cardinality({i \in DOMAIN msgs : msgs[i].type = "result"})

\* The worker's state and channel after an operation that ended with r.
Finish(id, type, r) ==
  /\ modules' = r.modules
  /\ execCount' = r.execCount
  /\ initialized' = r.initialized
  /\ pythonAvailable' = r.pythonAvailable
  /\ pyodide' = r.pyodide
  /\ snippetsRun' = r.snippetsRun
  /\ IF r.kind = "suspend"
     THEN /\ toCtl' = toCtl \o r.logs
          /\ consoleTrace' = TraceOf(ConsoleOnly(r.logs), 1)
          /\ UNCHANGED <<resultsPosted, completed>>
     ELSE /\ toCtl' = toCtl \o r.logs \o Reply(id, type, r)
          /\ consoleTrace' = TraceOf(ConsoleOnly(r.logs \o Reply(id, type, r)), 1)
          /\ resultsPosted' = [resultsPosted EXCEPT ![id] = @ + ResultCount(Reply(id, type, r))]
          /\ completed' = completed \cup {id}

\* self.addEventListener('message', ...), lines 368-407.
onMessage ==
  /\ ~terminated
  /\ toWorker # <<>>
  /\ LET msg == Head(toWorker)
         r == Dispatch(msg)
     IN /\ toWorker' = Tail(toWorker)
        /\ Finish(msg.id, msg.type, r)
        /\ fetching' = IF r.kind = "suspend"
                       THEN fetching \cup {[id |-> msg.id, name |-> msg.data.name, url |-> msg.data.url]}
                       ELSE fetching
  /\ UNCHANGED <<ctlVars, strays, raws, agent>>

\* The fetch of a suspended load_module settles and its handler runs on.
fetchSettled(f, fetched) ==
  /\ ~terminated
  /\ f \in fetching
  /\ fetching' = fetching \ {f}
  /\ Finish(f.id, "load_module", loadModuleResume(f.name, f.url, fetched))
  /\ toWorker' = toWorker
  /\ UNCHANGED <<ctlVars, strays, raws, agent>>

(***************************************************************************)
(* The environment of the controller's listener: a message event with a    *)
(* result message that no handler of the worker posted, with any id (one   *)
(* already answered, one still pending, one never issued).  Only SpecStray *)
(* has it.                                                                 *)
(***************************************************************************)
strayResult(id) ==
  /\ strays < MaxStray
  /\ strays' = strays + 1
  /\ listener(ResultError(id, "stray"))
  /\ UNCHANGED <<ctlPc, messageId, terminated, calls, arrivals, workerVars, toWorker, toCtl, raws, agent>>

Next ==
  \/ SendInit
  \/ InitAcked
  \/ \E r \in ExecRequests : iface_executeCode(r.code, r.language)
  \/ \E r \in LoadRequests : iface_loadModule(r.name, r.url, r.type)
  \/ terminate
  \/ onWorkerMessage
  \/ onMessage
  \/ \E f \in fetching, fetched \in BOOLEAN : fetchSettled(f, fetched)

Spec == Init /\ [][Next]_vars

\* The requests made in SpecStray: one that is answered at once, one that is
\* answered after a fetch, one that is answered with an error.
StrayExecRequests == { [code |-> "return 1", language |-> "js"] }
StrayLoadRequests ==
  { [name |-> "m", url |-> "http://cdn/m.js", type |-> "js"],
    [name |-> "m", url |-> "throw new Error('boom')", type |-> "js"] }

NextStray ==
  \/ SendInit
  \/ InitAcked
  \/ \E r \in StrayExecRequests : iface_executeCode(r.code, r.language)
  \/ \E r \in StrayLoadRequests : iface_loadModule(r.name, r.url, r.type)
  \/ terminate
  \/ onWorkerMessage
  \/ onMessage
  \/ \E f \in fetching, fetched \in BOOLEAN : fetchSettled(f, fetched)
  \/ \E id \in Ids : strayResult(id)

SpecStray == Init /\ [][NextStray]_vars

(***************************************************************************)
(* The worker as its message protocol defines it: the holder of the Worker *)
(* object posts messages of its own making (any type, init repeated or     *)
(* missing), each with the next id of its own counter.  initSandbox never  *)
(* does this; only SpecRaw has it.                                         *)
(***************************************************************************)
RawMessages ==
  { [type |-> "init", data |-> [type |-> "python"]],
    [type |-> "init", data |-> [type |-> "js"]],
    [type |-> "execute", data |-> [code |-> "return 1", language |-> "js"]],
    [type |-> "execute", data |-> [code |-> "throw new Error('boom')", language |-> "javascript"]],
    [type |-> "execute", data |-> [code |-> "return 'a'", language |-> "py"]],
    [type |-> "load_module", data |-> [name |-> "m", url |-> "http://cdn/m.js", type |-> "js"]],
    [type |-> "load_module", data |-> [name |-> "n", url |-> "exports.x = 1", type |-> "python"]],
    [type |-> "ping", data |-> [type |-> "python"]] }

\* worker.postMessage({id, type, data}) by the holder of the worker.
rawPost(m) ==
  /\ ~terminated
  /\ Len(raws) < MaxRaw
  /\ LET msg == Request(Len(raws), m.type, m.data)
     IN /\ raws' = Append(raws, msg)
        /\ toWorker' = Append(toWorker, msg)
  /\ UNCHANGED <<ctlVars, workerVars, toCtl, strays, agent>>

NextRaw ==
  \/ \E m \in RawMessages : rawPost(m)
  \/ onWorkerMessage
  \/ onMessage
  \/ \E f \in fetching, fetched \in BOOLEAN : fetchSettled(f, fetched)

SpecRaw == Init /\ [][NextRaw]_vars

(***************************************************************************)
(* RuntimeAgent._extractCodeFromPrompt, src/src/agents/runtime_agent.js    *)
(* lines 87-114.  The grave accent cannot be written in a string of this   *)
(* language: in every prompt below the character "~" stands for it, and no *)
(* prompt contains a "~" of its own.                                       *)
(***************************************************************************)
Fence == "~~~"
WordChars == UpperLetters \o LowerLetters \o "0123456789_-"
SpaceChars == " \n\t\r"

Contains(chars, ch) == \E i \in 1 .. Len(chars) : CharAt(chars, i) = ch

\* String.prototype.trim
RECURSIVE TrimStart(_)
TrimStart(s) ==
  IF s # "" /\ Contains(SpaceChars, CharAt(s, 1)) THEN TrimStart(SubSeq(s, 2, Len(s))) ELSE s
RECURSIVE TrimEnd(_)
TrimEnd(s) ==
  IF s # "" /\ Contains(SpaceChars, CharAt(s, Len(s))) THEN TrimEnd(SubSeq(s, 1, Len(s) - 1)) ELSE s
Trim(s) == TrimEnd(TrimStart(s))

\* The position after the longest run of [\w-] that starts at position i.
WordRunEnd(s, i) ==
  LET stops == {j \in i .. Len(s) : ~Contains(WordChars, CharAt(s, j))}
  IN IF stops = {} THEN Len(s) + 1 ELSE CHOOSE j \in stops : \A k \in stops : j <= k

NoMatch == [found |-> FALSE, language |-> JSUndefined, code |-> ""]

\* matches[0] of prompt.matchAll(/```(?:([\w-]+)\n)?([\s\S]*?)```/g), lines
\* 97-102: the leftmost match; at a fence the tag group is tried first
\* (the whole run of [\w-], then a line feed), then the match without it;
\* the body runs up to the next fence.
RECURSIVE FirstMatchFrom(_, _)
FirstMatchFrom(prompt, from) ==
  LET o == IndexOf(prompt, Fence, from)
      t == WordRunEnd(prompt, o + Len(Fence))
      tagged == t > o + Len(Fence) /\ t <= Len(prompt) /\ CharAt(prompt, t) = "\n"
      cTag == IF tagged THEN IndexOf(prompt, Fence, t + 1) ELSE 0
      cPlain == IndexOf(prompt, Fence, o + Len(Fence))
  IN IF o = 0 THEN NoMatch
     ELSE IF cTag > 0
     THEN [found |-> TRUE, language |-> StrVal(SubSeq(prompt, o + Len(Fence), t - 1)),
           code |-> SubSeq(prompt, t + 1, cTag - 1)]
     ELSE IF cPlain > 0
     THEN [found |-> TRUE, language |-> JSUndefined,
           code |-> SubSeq(prompt, o + Len(Fence), cPlain - 1)]
     ELSE FirstMatchFrom(prompt, o + 1)

\* a || b
JSOr(a, b) == IF Truthy(a) THEN a ELSE b

\* language?.trim().toLowerCase(), line 105.
TagOf(language) ==
  IF language = JSUndefined THEN JSUndefined ELSE StrVal(ToLowerCase(Trim(language.s)))

\* _extractCodeFromPrompt(prompt, options = {}), lines 87-114.
extractCodeFromPrompt(prompt, options) ==
  IF Truthy(options.code)
  THEN [code |-> options.code.s, language |-> JSOr(options.language, StrVal("javascript")).s]
  ELSE LET m == FirstMatchFrom(prompt, 1)
       IN IF m.found
          THEN [code |-> Trim(m.code),
                language |-> JSOr(TagOf(m.language), JSOr(options.language, StrVal("javascript"))).s]
          ELSE [code |-> Trim(prompt), language |-> JSOr(options.language, StrVal("javascript")).s]

\* The prompts of the model, by their parts.  A prompt with a block is
\*   pre ~~~ tag LF padL core padR ~~~ post      (tag LF absent when tag = "")
\* and one without is padL core padR.  `lower` is the tag in lower case and
\* `word` says whether the tag consists of [\w-] only.  The tag "js\r" is
\* the tag js of a prompt whose lines end with CR LF.
Tags ==
  { [tag |-> "", lower |-> "", word |-> FALSE],
    [tag |-> "JS", lower |-> "js", word |-> TRUE],
    [tag |-> "python", lower |-> "python", word |-> TRUE],
    [tag |-> "c++", lower |-> "c++", word |-> FALSE],
    [tag |-> "js\r", lower |-> "js", word |-> FALSE] }
Pads == { [l |-> "", r |-> ""], [l |-> " ", r |-> "\n"], [l |-> "\n", r |-> " \n"] }
BlockInputs ==
  { [hasBlock |-> TRUE, pre |-> pre, tag |-> t, pad |-> pad, core |-> "x = 1", post |-> post] :
      pre \in {"", "Run: "}, t \in Tags, pad \in Pads,
      post \in {"", " or ~~~py\ny = 2\n~~~"} }
PlainInputs ==
  { [hasBlock |-> FALSE, pre |-> "", tag |-> [tag |-> "", lower |-> "", word |-> FALSE],
     pad |-> pad, core |-> core, post |-> ""] :
      pad \in Pads, core \in {"x = 1", "~~~js\nx = 1"} }
Inputs == BlockInputs \cup PlainInputs

PromptOf(i) ==
  IF i.hasBlock
  THEN i.pre \o Fence \o (IF i.tag.tag = "" THEN "" ELSE i.tag.tag \o "\n")
       \o i.pad.l \o i.core \o i.pad.r \o Fence \o i.post
  ELSE i.pad.l \o i.core \o i.pad.r

\* options; a call without options has both undefined (options = {}).
Options ==
  { [code |-> c, language |-> l] :
      c \in {JSUndefined, StrVal(""), StrVal(" z ")},
      l \in {JSUndefined, StrVal(""), StrVal("python")} }

\* _processPrompt has been called with a prompt and options (line 22).
InitExtract ==
  /\ ctlPc = "start"
  /\ messageId = 0
  /\ messageHandlers = EmptyMap
  /\ terminated = FALSE
  /\ hostOut = <<>>
  /\ calls = <<>>
  /\ promise = <<>>
  /\ arrivals = <<>>
  /\ delivered = NoMessage
  /\ toWorker = <<>>
  /\ toCtl = <<>>
  /\ modules = EmptyMap
  /\ initialized = FALSE
  /\ pyodide = "null"
  /\ pythonAvailable = FALSE
  /\ fetching = {}
  /\ execCount = [n \in Names |-> 0]
  /\ resultsPosted = [i \in Ids \cup RawIds |-> 0]
  /\ completed = {}
  /\ snippetsRun = 0
  /\ consoleTrace = <<>>
  /\ strays = 0
  /\ raws = <<>>
  /\ agent \in { [pc |-> "called", input |-> i, prompt |-> PromptOf(i), options |-> o,
                  result |-> [code |-> "", language |-> ""]] : i \in Inputs, o \in Options }

\* const { code, language } = this._extractCodeFromPrompt(prompt, options), line 27.
extract ==
  /\ agent.pc = "called"
  /\ agent' = [agent EXCEPT !.pc = "extracted",
                            !.result = extractCodeFromPrompt(agent.prompt, agent.options)]
  /\ UNCHANGED <<ctlVars, workerVars, toWorker, toCtl, strays, raws>>

NextExtract == extract

SpecExtract == InitExtract /\ [][NextExtract]_vars

(***************************************************************************)
(* RuntimeAgent, src/src/agents/runtime_agent.js: _processPrompt,          *)
(* _executeCode and executeWithInputs, on top of the sandbox interface.    *)
(* The agent makes one call at a time.  agent.pc is "awaiting" while       *)
(* sandbox.executeCode is awaited, "returned" with the object returned,    *)
(* "threw" with the message of the error thrown.                           *)
(***************************************************************************)
NoOptions == [code |-> JSUndefined, language |-> JSUndefined]

AgentPrompts ==
  { [prompt |-> "return 1", options |-> NoOptions],
    [prompt |-> "~~~js\nthrow new Error('boom')\n~~~", options |-> NoOptions],
    [prompt |-> "throw null", options |-> NoOptions],
    [prompt |-> "~~~ruby\nreturn 1\n~~~", options |-> NoOptions],
    [prompt |-> "return 'a'", options |-> [code |-> JSUndefined, language |-> StrVal("python")]],
    [prompt |-> " ", options |-> NoOptions] }

\* inputs is the text JSON.stringify(inputs) yields.
AgentInputRequests ==
  { [code |-> TwoCallables, language |-> "javascript", inputs |-> "[2]"],
    [code |-> "return 1", language |-> "js", inputs |-> "[]"],
    [code |-> TwoCallables, language |-> "python", inputs |-> "[2]"],
    [code |-> "return 1", language |-> "ruby", inputs |-> "[2]"],
    [code |-> "return 1", language |-> "", inputs |-> "[2]"] }

\* The text executeWithInputs puts around a Python snippet, lines 181-198.
WrapPy(code, inputs) ==
  "\nimport json\ninputs = json.loads('" \o inputs \o "')\n" \o code
    \o "\nimport inspect\nfunctions = [name for name, obj in locals().items() if callable(obj) and not name.startswith('__')]\nif functions:\n    last_function = functions[-1]\n    if callable(locals()[last_function]):\n        result = locals()[last_function](*inputs)\n        print(f\"Result: {result}\")\n"

\* Mutant of wrapWithInputs: a language that is not recognized is treated
\* as JavaScript.
wrapWithInputsDefaultJs(code, language, inputs) ==
  IF language = "python" \/ language = "py"
  THEN [code |-> WrapPy(code, inputs), language |-> "python"]
  ELSE [code |-> WrapJs(code, inputs), language |-> "javascript"]

\* What executeWithInputs hands to _executeCode, lines 156-207.
wrapWithInputs(code, language, inputs) ==
  IF language = "javascript" \/ language = "js"
  THEN [code |-> WrapJs(code, inputs), language |-> "javascript"]
  ELSE IF language = "python" \/ language = "py"
  THEN [code |-> WrapPy(code, inputs), language |-> "python"]
  ELSE [code |-> code, language |-> language]

\* _executeCode(code, language), lines 122-130, up to its await: without a
\* sandbox it throws; else sandbox.executeCode is called and awaited.
agentExecuteCode(op, args, code, language) ==
  IF ctlPc # "ready"
  THEN /\ agent' = [pc |-> "threw", op |-> op, args |-> args, code |-> code, language |-> language,
                    error |-> "Sandbox not initialized"]
       /\ UNCHANGED <<ctlVars, workerVars, toWorker, toCtl, strays, raws>>
  ELSE /\ sandbox_executeCode(code, language)
       /\ agent' = [pc |-> "awaiting", op |-> op, args |-> args, code |-> code, language |-> language,
                    call |-> Len(calls) + 1]

\* _processPrompt(prompt, options), lines 22-36, up to its first await.
processPrompt(prompt, options) ==
  /\ agent.pc # "awaiting"
  /\ LET x == extractCodeFromPrompt(prompt, options)
         args == [prompt |-> prompt, options |-> options]
     IN IF x.code = ""
        THEN /\ agent' = [pc |-> "threw", op |-> "processPrompt", args |-> args, code |-> x.code,
                          language |-> x.language, error |-> "No code found in the prompt"]
             /\ UNCHANGED <<ctlVars, workerVars, toWorker, toCtl, strays, raws>>
        ELSE agentExecuteCode("processPrompt", args, x.code, x.language)

\* executeWithInputs(code, language, inputs), lines 152-208, up to the await
\* of _executeCode.
executeWithInputs(code, language, inputs) ==
  /\ agent.pc # "awaiting"
  /\ LET w == wrapWithInputs(code, language, inputs)
     IN agentExecuteCode("executeWithInputs", [code |-> code, language |-> language, inputs |-> inputs],
                         w.code, w.language)

\* What _executeCode returns once the promise is settled, lines 131-142.
\* A field that the object does not have is undefined here.
ExecuteCodeResult(p) ==
  IF p.state = "resolved"
  THEN [output |-> p.val.output, type |-> StrVal(p.val.type), error |-> JSUndefined]
  ELSE [output |-> JSNull, type |-> JSUndefined,
        error |-> StrVal(IF Truthy(MessageOf(p.val)) THEN MessageOf(p.val).s ELSE String(p.val))]

\* The continuation of the await: executeWithInputs returns the result of
\* _executeCode; _processPrompt saves it to memory (lines 38-55; the save
\* may fail, and the error is thrown on) and returns its object, lines
\* 57-63.
agentSettled(saved) ==
  /\ agent.pc = "awaiting"
  /\ promise[agent.call].state # "pending"
  /\ LET result == ExecuteCodeResult(promise[agent.call])
     IN agent' =
          IF agent.op = "executeWithInputs"
          THEN [pc |-> "returned", op |-> agent.op, args |-> agent.args, code |-> agent.code,
                language |-> agent.language, call |-> agent.call, returned |-> result]
          ELSE IF ~saved
          THEN [pc |-> "threw", op |-> agent.op, args |-> agent.args, code |-> agent.code,
                language |-> agent.language, error |-> "saveMemory failed"]
          ELSE [pc |-> "returned", op |-> agent.op, args |-> agent.args, code |-> agent.code,
                language |-> agent.language, call |-> agent.call,
                returned |-> [code |-> agent.code, language |-> agent.language,
                              output |-> result.output, error |-> result.error,
                              success |-> ~Truthy(result.error)]]
  /\ UNCHANGED <<ctlVars, workerVars, toWorker, toCtl, strays, raws>>

NextAgent ==
  \/ SendInit
  \/ InitAcked
  \/ \E r \in AgentPrompts : processPrompt(r.prompt, r.options)
  \/ \E r \in AgentInputRequests : executeWithInputs(r.code, r.language, r.inputs)
  \/ \E saved \in BOOLEAN : agentSettled(saved)
  \/ onWorkerMessage
  \/ onMessage

SpecAgent == Init /\ [][NextAgent]_vars

(***************************************************************************)
(* Properties                                                              *)
(***************************************************************************)
Settled(c) == promise[c].state # "pending"
IsUserCall(c) == calls[c].type \in {"execute", "load_module"}

\* A step in which the controller's listener handles a message (delivered').
ListenerStep ==
  \/ toCtl # <<>> /\ toCtl' = Tail(toCtl) /\ terminated' = terminated
  \/ strays' # strays
\* A step in which the worker's listener takes a message off its queue.
WorkerTakes == ~terminated /\ toWorker # <<>> /\ toWorker' = Tail(toWorker)

\* C1: every promise is settled by a result message that carries the id of
\* its own call, and with a payload that message carries, in whatever order
\* the results of calls in flight together arrive.
C1_OwnResult ==
  \A c \in DOMAIN promise :
    /\ \A i \in DOMAIN promise[c].by : promise[c].by[i].id = calls[c].id
    /\ Settled(c) =>
         LET d == promise[c].by[1].data IN
         \/ promise[c].state = "resolved" /\ promise[c].val = d.result
         \/ promise[c].state = "rejected" /\ promise[c].val = ErrorVal(d.error.s)

\* C1 witness: two calls were in flight together, the result of the later
\* call arrived first, and both promises are settled.
C1_Witness ==
  \E i, j \in DOMAIN arrivals :
    /\ i < j /\ arrivals[i] > arrivals[j]
    /\ \E c1, c2 \in DOMAIN promise :
         /\ calls[c1].id = arrivals[i] /\ calls[c2].id = arrivals[j]
         /\ IsUserCall(c1) /\ IsUserCall(c2)
         /\ Settled(c1) /\ Settled(c2)

\* C2 (as claimed): for every message whose handler has run to its end, the
\* worker has posted exactly one result message with the message's id.
C2_ExactlyOneResult == \A id \in completed : resultsPosted[id] = 1

\* C3 (as claimed): no request stays pending forever: once nothing is left
\* that could still act on a request (no message in flight to the
\* controller, and the worker terminated or idle), every promise of
\* executeCode/loadModule is settled.
Quiescent ==
  /\ toCtl = <<>>
  /\ terminated \/ (toWorker = <<>> /\ fetching = {})
C3_NoRequestHangs ==
  Quiescent => \A c \in DOMAIN promise : IsUserCall(c) => Settled(c)

\* C4: a load_module request that the worker takes up when its name is
\* already in the registry runs no module body, leaves the registry alone,
\* does not fetch, and is answered with the result true, whatever source
\* and type it carries.
C4_SecondLoadRunsNothing ==
  [][ (WorkerTakes /\ Head(toWorker).type = "load_module"
         /\ Head(toWorker).data.name \in DOMAIN modules)
      => /\ execCount' = execCount
         /\ modules' = modules
         /\ fetching' = fetching
         /\ toCtl' # <<>>
         /\ toCtl'[Len(toCtl')] = ResultOk(Head(toWorker).id, JSTrue) ]_vars

\* C4 witness: two loadModule calls for one name, with different sources,
\* both resolved with true, and the body was run once.
C4_Witness ==
  \E c1, c2 \in DOMAIN promise :
    /\ c1 < c2
    /\ calls[c1].type = "load_module" /\ calls[c2].type = "load_module"
    /\ calls[c1].data.name = calls[c2].data.name
    /\ calls[c1].data.url # calls[c2].data.url
    /\ promise[c1].state = "resolved" /\ promise[c1].val = JSTrue
    /\ promise[c2].state = "resolved" /\ promise[c2].val = JSTrue
    /\ execCount[calls[c1].data.name] = 1

\* C5 (as claimed): at most one load per name, also under concurrency: once
\* a module has been stored under a name, no module body is run for that
\* name again.
C5_AtMostOnceLoad ==
  [][ \A n \in Names : n \in DOMAIN modules => execCount'[n] = execCount[n] ]_vars

\* C6 (as claimed): terminate() rejects every promise that is still pending
\* and empties the pending map.
C6_TerminateRejectsPending ==
  [][ (~terminated /\ terminated')
      => /\ messageHandlers' = EmptyMap
         /\ \A c \in DOMAIN promise :
              promise[c].state = "pending" => promise'[c].state = "rejected" ]_vars

\* C7 (as claimed): a call made after terminate() rejects at once, posts no
\* message to the worker and adds no entry to the pending map.
C7_CallAfterTerminateRejects ==
  [][ (terminated /\ Len(calls') > Len(calls))
      => /\ toWorker' = toWorker
         /\ messageHandlers' = messageHandlers
         /\ promise'[Len(calls')].state = "rejected" ]_vars

\* C8: the ids sendMessage assigns are strictly increasing in call order
\* (so pairwise distinct), every entry of the pending map is filed under
\* the id of its own call, and every pending promise still has its entry:
\* no id is handed out again while its entry is live.
C8_IdsDistinctIncreasing ==
  /\ \A i, j \in DOMAIN calls : i < j => calls[i].id < calls[j].id
  /\ \A id \in DOMAIN messageHandlers :
       /\ id < messageId
       /\ calls[messageHandlers[id]].id = id
  /\ \A c \in DOMAIN promise :
       promise[c].state = "pending" =>
         /\ calls[c].id \in DOMAIN messageHandlers
         /\ messageHandlers[calls[c].id] = c

\* C8 witness: three ids have been assigned and two entries are pending at
\* the same time.
C8_Witness ==
  /\ Len(calls) >= 3
  /\ Cardinality(DOMAIN messageHandlers) >= 2

\* C9: the listener removes a pending entry on the first result message with
\* its id and settles that promise, and no other, with it; a result message
\* whose id has no entry (a repeated id, or one never issued) leaves the
\* pending map and every promise unchanged; resolve/reject is called at most
\* once per promise and a settled promise never changes.
C9_RemovedOnce ==
  [][ /\ (ListenerStep /\ delivered'.type = "result"
            /\ delivered'.id \in DOMAIN messageHandlers)
         => LET id == delivered'.id
                c == messageHandlers[id]
            IN /\ messageHandlers' = MapDelete(messageHandlers, id)
               /\ promise[c].state = "pending"
               /\ promise'[c].state # "pending"
               /\ promise'[c].by = <<delivered'>>
               /\ \A o \in DOMAIN promise : o # c => promise'[o] = promise[o]
      /\ (ListenerStep /\ delivered'.type = "result"
            /\ delivered'.id \notin DOMAIN messageHandlers)
         => UNCHANGED <<messageHandlers, promise>>
      /\ \A c \in DOMAIN promise :
           /\ Len(promise'[c].by) <= 1
           /\ promise[c].state # "pending" => promise'[c] = promise[c] ]_vars

\* C9 witness: the listener has just handled a result message with the id
\* of an executeCode/loadModule call whose promise an earlier, different
\* result message had settled; the promise has been settled once.
C9_Witness ==
  /\ delivered.type = "result"
  /\ \E c \in DOMAIN promise :
       /\ IsUserCall(c)
       /\ calls[c].id = delivered.id
       /\ Settled(c)
       /\ Len(promise[c].by) = 1
       /\ promise[c].by[1] # delivered

\* C10 (as claimed): a promise is rejected with the carried message when the
\* result message that settled it carries an error, and resolved with the
\* carried result otherwise.
C10_ErrorPayloadRejects ==
  \A c \in DOMAIN promise :
    Settled(c) =>
      LET d == promise[c].by[1].data IN
      IF d.key = "error"
      THEN promise[c].state = "rejected" /\ promise[c].val = ErrorVal(d.error.s)
      ELSE promise[c].state = "resolved" /\ promise[c].val = d.result

\* C11 (as claimed): every executeCode call that settles resolves, and is
\* settled once; none rejects, whatever the snippet and the language.
C11_ExecuteNeverRejects ==
  \A c \in DOMAIN promise :
    (calls[c].type = "execute" /\ Settled(c))
      => promise[c].state = "resolved" /\ Len(promise[c].by) = 1

\* C12: an execute request for 'python' or 'py', taken up by the initialized
\* worker while that guest is unavailable, runs no snippet, changes nothing
\* in the worker and is answered with the result {output: the unavailable
\* notice, type: 'error'}; the promise of such a call, once settled, is
\* resolved with that object.
UnavailableResult == ExecResult(StrVal(PythonNotice), "error")
C12_PythonUnavailableResult ==
  /\ [](\A c \in DOMAIN promise :
          (calls[c].type = "execute" /\ calls[c].data.language \in {"python", "py"}
             /\ Settled(c))
          => promise[c].state = "resolved" /\ promise[c].val = UnavailableResult)
  /\ [][ (WorkerTakes /\ Head(toWorker).type = "execute"
            /\ Head(toWorker).data.language \in {"python", "py"}
            /\ initialized /\ (~pythonAvailable \/ pyodide = "null"))
         => /\ snippetsRun' = snippetsRun
            /\ toCtl' = Append(toCtl, ResultOk(Head(toWorker).id, UnavailableResult))
            /\ UNCHANGED <<modules, initialized, pythonAvailable, pyodide, fetching, execCount>> ]_vars

\* C12 witness: an execute for 'py' was resolved with the notice, no snippet
\* was run for it, and a later call has been answered as well.
C12_Witness ==
  \E c1, c2 \in DOMAIN promise :
    /\ c1 < c2
    /\ calls[c1].type = "execute" /\ calls[c1].data.language = "py"
    /\ promise[c1].state = "resolved" /\ promise[c1].val = UnavailableResult
    /\ calls[c2].type = "execute" /\ calls[c2].data.language = "js"
    /\ promise[c2].state = "resolved"
    /\ snippetsRun = 1

\* C13 (as claimed): the promise of an execute of a JavaScript snippet is
\* resolved, when the snippet throws, with an object that carries the
\* fault's message as errorMessage and null as output, and when it returns,
\* with the value returned as output and its typeof as type.
C13_FaultAsErrorMessage ==
  \A c \in DOMAIN promise :
    (calls[c].type = "execute" /\ calls[c].data.language = "js" /\ Settled(c))
      => LET o == RunBody(calls[c].data.code)
             v == promise[c].val
         IN /\ promise[c].state = "resolved"
            /\ IF o.kind = "throw"
               THEN /\ "errorMessage" \in DOMAIN v
                    /\ v.errorMessage = StrVal(o.thrown.s)
                    /\ v.output = JSNull
               ELSE v.output = o.val /\ v.type = TypeOf(o.val)

\* C14 (as claimed): the promise of a loadModule call, once settled, is
\* either resolved with true, the module then being stored, or rejected; it
\* is never resolved with another value.
C14_LoadTrueOrRejects ==
  \A c \in DOMAIN promise :
    (calls[c].type = "load_module" /\ Settled(c))
      => \/ promise[c].state = "rejected"
         \/ /\ promise[c].state = "resolved"
            /\ promise[c].val = JSTrue
            /\ calls[c].data.name \in DOMAIN modules

\* C17: the interface exists only once the promise of the init message is
\* resolved; every message of the interface reaches a worker that is
\* initialized, and no promise is rejected with 'Sandbox not initialized'.
C17_NoExecuteBeforeInit ==
  /\ calls # <<>> => calls[1] = Request(0, "init", [type |-> "python"])
  /\ ctlPc = "ready" => promise[1].state = "resolved" /\ initialized
  /\ \A i \in DOMAIN toWorker : toWorker[i].type # "init" => ctlPc = "ready"
  /\ \A c \in DOMAIN promise :
       promise[c].state = "rejected" => promise[c].val # ErrorVal("Sandbox not initialized")

\* C17 witness: an executeCode call has been answered by the worker.
C17_Witness ==
  \E c \in DOMAIN promise :
    /\ calls[c].type = "execute"
    /\ promise[c].state = "resolved"
    /\ initialized

\* C19 (as claimed): a language identifier that differs from 'python' or
\* 'py' only in letter case is dispatched like the lowercase identifier: the
\* promise of such an executeCode call, once settled, is resolved with the
\* answer of the Python branch and the snippet is not run as JavaScript.
C19_CaseInsensitiveLanguage ==
  \A c \in DOMAIN promise :
    (calls[c].type = "execute" /\ Settled(c)
       /\ ToLowerCase(calls[c].data.language) \in {"python", "py"})
      => promise[c].state = "resolved" /\ promise[c].val = UnavailableResult

\* The messages the worker posts in the step, and the 'result' messages
\* among them.
PostedInStep == SubSeq(toCtl', Len(toCtl) + 1, Len(toCtl'))
ResultsInStep == SelectSeq(PostedInStep, LAMBDA m : m.type = "result")
WorkerStateUnchanged ==
  UNCHANGED <<modules, initialized, pythonAvailable, pyodide, fetching, execCount, snippetsRun>>

\* C15: the worker answers a message whose type is none of init, execute,
\* load_module with exactly one result message, which carries the message's
\* id and the error 'Unknown message type: <type>'; the step changes neither
\* the initialized flag, nor the guest's availability, nor the registry.
C15_UnknownTypeAnswered ==
  [][ (WorkerTakes /\ Head(toWorker).type \notin {"init", "execute", "load_module"})
      => /\ ResultsInStep
              = <<ResultError(Head(toWorker).id, "Unknown message type: " \o Head(toWorker).type)>>
         /\ WorkerStateUnchanged ]_vars

\* C15 witness: a message of unknown type was answered, and so was a
\* message posted after it.
C15_Witness ==
  \E i, j \in DOMAIN raws :
    /\ i < j
    /\ raws[i].type = "ping" /\ resultsPosted[raws[i].id] = 1
    /\ raws[j].type = "execute" /\ resultsPosted[raws[j].id] = 1

\* C16: the worker answers every init message, of whatever type and however
\* often repeated, with exactly one result message carrying true; after it
\* the worker is initialized and the Python guest is recorded unavailable.
C16_InitAlwaysTrue ==
  [][ (WorkerTakes /\ Head(toWorker).type = "init")
      => /\ ResultsInStep = <<ResultOk(Head(toWorker).id, JSTrue)>>
         /\ initialized'
         /\ ~pythonAvailable' /\ pyodide' = "null"
         /\ UNCHANGED <<modules, fetching, execCount, snippetsRun>> ]_vars

\* C16 witness: an init for the Python guest and a repeated init have both
\* been answered.
C16_Witness ==
  \E i, j \in DOMAIN raws :
    /\ i < j
    /\ raws[i].type = "init" /\ raws[i].data.type = "python" /\ resultsPosted[raws[i].id] = 1
    /\ raws[j].type = "init" /\ resultsPosted[raws[j].id] = 1
    /\ initialized /\ ~pythonAvailable

\* C18 (as claimed): an execute message for JavaScript that the worker takes
\* up before any init message is run and answered with its result.
C18_JsRunsBeforeInit ==
  [][ (WorkerTakes /\ Head(toWorker).type = "execute"
         /\ ~IsPythonLanguage(Head(toWorker).data.language) /\ ~initialized)
      => /\ snippetsRun' = snippetsRun + 1
         /\ Len(ResultsInStep) = 1
         /\ ResultsInStep[1].id = Head(toWorker).id
         /\ ResultsInStep[1].data.key = "result" ]_vars

\* C18 (amended): an execute message for JavaScript that the worker takes
\* up before any init message is not run: the worker answers it with one
\* result message carrying the error 'Sandbox not initialized' and its
\* state stays as it was.
C18_RefusedBeforeInit ==
  [][ (WorkerTakes /\ Head(toWorker).type = "execute"
         /\ ~IsPythonLanguage(Head(toWorker).data.language) /\ ~initialized)
      => /\ ResultsInStep = <<ResultError(Head(toWorker).id, "Sandbox not initialized")>>
         /\ WorkerStateUnchanged ]_vars

\* C18 witness: an execute for JavaScript has been answered while no init
\* message has been handled.
C18_Witness ==
  /\ ~initialized
  /\ \E i \in DOMAIN raws :
       /\ raws[i].type = "execute" /\ raws[i].data.language = "js"
       /\ resultsPosted[raws[i].id] = 1
       /\ \A j \in 1 .. i : raws[j].type # "init"

\* What options.language || 'javascript' is for the options of the call.
OptionLanguage == IF Truthy(agent.options.language) THEN agent.options.language.s ELSE "javascript"

\* C20 (as claimed): when options.code is not given, for a prompt with a
\* fenced block the code is the trimmed body of the first block and, when
\* the block has a tag, the language is the tag in lower case, whatever
\* options.language says; for a prompt without a block the code is the
\* whole trimmed prompt; without a tag the language is options.language, or
\* 'javascript' when that is not given either.
C20_FirstBlockExtracted ==
  (agent.pc = "extracted" /\ ~Truthy(agent.options.code)) =>
    LET i == agent.input
        r == agent.result
    IN /\ r.code = i.core
       /\ (i.hasBlock /\ i.tag.tag # "") => r.language = i.tag.lower
       /\ (~i.hasBlock \/ i.tag.tag = "") => r.language = OptionLanguage

\* C22: the listener's step for a message of type 'console' appends the
\* message's line to the host output in that same step, settles no promise
\* and leaves the map of pending handlers as it was, whatever calls are
\* pending.
C22_ConsoleSettlesNothing ==
  [][ (ListenerStep /\ Head(toCtl).type = "console")
      => /\ hostOut' = Append(hostOut, Head(toCtl).data)
         /\ UNCHANGED <<messageHandlers, promise, messageId, calls>> ]_vars

\* C22 witness: a console line was forwarded while a call was pending, after
\* a later call had already been settled.
C22_Witness ==
  /\ delivered.type = "console"
  /\ hostOut # <<>> /\ hostOut[Len(hostOut)] = delivered.data
  /\ \E c1, c2 \in DOMAIN promise :
       /\ c1 < c2 /\ IsUserCall(c1)
       /\ ~Settled(c1) /\ Settled(c2)

\* C23: a load_module message whose name is in the registry when the worker
\* takes it up is answered with true in that step, whatever type and source
\* it carries: nothing is run or fetched and the registry keeps its entry.
C23_LoadedNameAnyType ==
  [][ (WorkerTakes /\ Head(toWorker).type = "load_module"
         /\ Head(toWorker).data.name \in DOMAIN modules)
      => /\ ResultsInStep = <<ResultOk(Head(toWorker).id, JSTrue)>>
         /\ UNCHANGED <<modules, execCount, snippetsRun, fetching>> ]_vars

\* C23 witness: the name n was loaded as a JavaScript module, and a later
\* load of n with the unsupported type 'wasm' was resolved with true.
C23_Witness ==
  \E c1, c2 \in DOMAIN promise :
    /\ c1 < c2
    /\ calls[c1].type = "load_module" /\ calls[c1].data.name = "n" /\ calls[c1].data.type = "js"
    /\ calls[c2].type = "load_module" /\ calls[c2].data.name = "n" /\ calls[c2].data.type = "wasm"
    /\ promise[c2].state = "resolved" /\ promise[c2].val = JSTrue
    /\ execCount["n"] = 1

ErrorLine(type) == [method |-> "error", args |-> "Error handling message " \o type \o ":"]

\* C30: in a step in which the worker posts a result message that carries
\* an error, the message posted just before it is the 'console' message
\* with method 'error' for that request; and in the step in which the
\* controller rejects the promise of a call, the last line forwarded to the
\* host output is that error line.
C30_ErrorLineBeforeResult ==
  [][ /\ \A i \in DOMAIN PostedInStep :
           (PostedInStep[i].type = "result" /\ PostedInStep[i].data.key = "error")
           => /\ i > 1
              /\ PostedInStep[i - 1].type = "console"
              /\ \E c \in DOMAIN calls :
                   /\ calls[c].id = PostedInStep[i].id
                   /\ PostedInStep[i - 1].data = ErrorLine(calls[c].type)
      /\ \A c \in DOMAIN promise :
           (ListenerStep /\ promise[c].state = "pending" /\ promise'[c].state = "rejected")
           => /\ hostOut # <<>>
              /\ hostOut[Len(hostOut)] = ErrorLine(calls[c].type)
              /\ hostOut' = hostOut ]_vars

\* C30 witness: a loadModule call was rejected by the result message just
\* delivered, the error line being the last line of the host output.
C30_Witness ==
  \E c \in DOMAIN promise :
    /\ calls[c].type = "load_module"
    /\ promise[c].state = "rejected"
    /\ delivered = ResultError(calls[c].id, promise[c].val.s)
    /\ hostOut # <<>> /\ hostOut[Len(hostOut)] = ErrorLine("load_module")

\* C25: the Python guest is unavailable in every state of the worker,
\* whatever init, execute and load_module messages it has handled; no step
\* of the worker changes that, and once an init has been handled every
\* execute for 'python' or 'py' is answered with the unavailable notice.
C25_PythonStaysUnavailable ==
  /\ [](~pythonAvailable /\ pyodide = "null")
  /\ [][ (WorkerTakes /\ Head(toWorker).type = "execute"
            /\ Head(toWorker).data.language \in {"python", "py"} /\ initialized)
         => ResultsInStep = <<ResultOk(Head(toWorker).id, UnavailableResult)>> ]_vars

\* C25 witness: after an init for Python, a second init for Python and then
\* an execute for 'py' were handled; the execute got the notice.
C25_Witness ==
  /\ Len(raws) = 3
  /\ raws[1].type = "init" /\ raws[1].data.type = "python"
  /\ raws[2].type = "init" /\ raws[2].data.type = "python"
  /\ raws[3].type = "execute" /\ raws[3].data.language = "py"
  /\ delivered = ResultOk(raws[3].id, UnavailableResult)
  /\ ~pythonAvailable

\* C27 (as claimed): of every console call made in the worker the local
\* echo, if there is one, comes after the 'console' message of that call.
C27_RelayBeforeEcho ==
  \A i \in DOMAIN consoleTrace :
    consoleTrace[i].kind = "echo"
      => \E j \in 1 .. (i - 1) :
           consoleTrace[j].kind = "relay" /\ consoleTrace[j].n = consoleTrace[i].n

\* C27 (amended): of every console call made in the worker the local echo
\* comes first, and the 'console' message of the call is posted after it,
\* before anything else is done; the 'console' messages a step of the
\* worker posts are those of its console calls, in their order.
C27_EchoThenRelay ==
  /\ [](\A i \in DOMAIN consoleTrace :
          consoleTrace[i].kind = "relay"
            => /\ i > 1
               /\ consoleTrace[i - 1] = [consoleTrace[i] EXCEPT !.kind = "echo"]
               /\ \A j \in 1 .. (i - 2) : consoleTrace[j].n < consoleTrace[i].n)
  /\ [][ consoleTrace' # consoleTrace
         => [k \in DOMAIN ConsoleOnly(PostedInStep) |-> ConsoleOnly(PostedInStep)[k].data]
              = [k \in DOMAIN SelectSeq(consoleTrace', LAMBDA e : e.kind = "relay")
                   |-> SelectSeq(consoleTrace', LAMBDA e : e.kind = "relay")[k].line] ]_vars

\* C27 witness: the latest step of the worker made two console calls (the
\* catch clauses of a failed load), each echoed and then relayed, and the
\* controller has forwarded the line of the second.
C27_Witness ==
  /\ Len(consoleTrace) = 4
  /\ consoleTrace[3].kind = "echo" /\ consoleTrace[4].kind = "relay"
  /\ consoleTrace[4].line = ErrorLine("load_module")
  /\ delivered.type = "console" /\ delivered.data = consoleTrace[4].line

\* C24 (as claimed): a step in which the worker handles an execute message
\* for a JavaScript snippet leaves the module registry as it was.
C24_ExecuteLeavesNoState ==
  [][ (WorkerTakes /\ Head(toWorker).type = "execute"
         /\ ~IsPythonLanguage(Head(toWorker).data.language))
      => modules' = modules ]_vars

\* C21 (as claimed): executeWithInputs of the two-function snippet as
\* JavaScript with the inputs [2] returns, as output, what the second
\* function returns for 2.
C21_LastCallableInvoked ==
  (agent.pc = "returned" /\ agent.op = "executeWithInputs"
     /\ agent.args = [code |-> TwoCallables, language |-> "javascript", inputs |-> "[2]"])
    => agent.returned.output = NumVal("4")

\* The language identifiers the worker or executeWithInputs compare with.
RecognizedLanguages == {"javascript", "js", "python", "py"}

\* C26: executeWithInputs with a language that is not recognized sends the
\* code and the language on as they are, without wrapper and inputs; the
\* initialized worker runs the code of an execute message with such a
\* language as JavaScript and answers with its value and typeof; the call
\* is not rejected.
C26_UnknownLanguageRunsAsJs ==
  /\ []((agent.pc \in {"awaiting", "returned"} /\ agent.op = "executeWithInputs"
           /\ agent.args.language \notin RecognizedLanguages)
        => /\ calls[agent.call].type = "execute"
           /\ calls[agent.call].data = [code |-> agent.args.code, language |-> agent.args.language]
           /\ promise[agent.call].state # "rejected"
           /\ agent.pc = "returned" => agent.returned.error = JSUndefined)
  /\ [][ (WorkerTakes /\ Head(toWorker).type = "execute" /\ initialized
            /\ Head(toWorker).data.language \notin RecognizedLanguages
            /\ RunBody(Head(toWorker).data.code).kind = "return")
         => /\ snippetsRun' = snippetsRun + 1
            /\ ResultsInStep
                 = <<ResultOk(Head(toWorker).id,
                              ExecResult(RunBody(Head(toWorker).data.code).val,
                                         TypeOf(RunBody(Head(toWorker).data.code).val)))>> ]_vars

\* C26 witness: executeWithInputs('return 1', 'ruby', [2]) has returned the
\* value of the code run as JavaScript.
C26_Witness ==
  /\ agent.pc = "returned" /\ agent.op = "executeWithInputs"
  /\ agent.args = [code |-> "return 1", language |-> "ruby", inputs |-> "[2]"]
  /\ agent.returned = [output |-> NumVal("1"), type |-> StrVal("number"), error |-> JSUndefined]

\* C28 (as claimed): the object _processPrompt returns has success true
\* exactly when its error is absent, a rejection of the sandbox shows as an
\* error with output null, and success is false whenever the JavaScript
\* code that was executed threw.
C28_SuccessIffNoFault ==
  (agent.pc = "returned" /\ agent.op = "processPrompt")
    => /\ agent.returned.success = (agent.returned.error = JSUndefined)
       /\ promise[agent.call].state = "rejected"
            => agent.returned.error # JSUndefined /\ agent.returned.output = JSNull
       /\ (~IsPythonLanguage(agent.language) /\ RunBody(agent.code).kind = "throw")
            => agent.returned.success = FALSE

====
